---- MODULE Spec2Model ----
(***************************************************************************)
(* Model of retryCollectionSubscription (deeplay-io/retry-subscription).   *)
(*                                                                         *)
(* The async generator is a sequential process.  pc is its position:       *)
(*   "open"   at the top of `while (true)`, about to call subscribe()      *)
(*   "await"  suspended in `for await`, waiting for the source's next batch *)
(*   "yield"  suspended at a `yield`, a batch handed to the consumer        *)
(*   "delay"  suspended in `await delay(signal, delayMs)`                   *)
(*   "done"   the generator has returned or thrown                          *)
(* Every action runs the code from one position to the next one.           *)
(***************************************************************************)
EXTENDS Integers, Sequences, FiniteSets, TLC

\* ------------------------------------------------------------------ bounds
MaxBatchLen == 2
MaxOuterCount == 2
MaxInnerCount == 1
MaxMaxAttempts == 2
MaxAttempt == 5

\* ------------------------------------------------------- values and inputs
Keys == {"k1", "k2"}
Values == {"v1", "v2"}
\* `undefined`, as the value of an update (the item was removed)
undefined == "undefined"
\* `undefined`, as the value of `attempt` and of the hook's numeric arguments
undefinedNumber == -1
\* `Infinity`, the default of maxAttempts: a number above every attempt
Infinity == 1000000

baseMs == 1000
maxDelayMs == 15000

\* no draw of Math.random()
NoDraw == <<0, 0>>

\* draws of Math.random(), as <<numerator, denominator>>, all in [0, 1)
RandomDraws == {<<0, 1>>, <<1, 3>>, <<1, 2>>, <<999, 1000>>}

CollectionSubscriptionUpdate == [key : Keys, value : Values \cup {undefined}]

Batches == UNION {[1..n -> CollectionSubscriptionUpdate] : n \in 0..MaxBatchLen}

\* a source whose batches are few: enough to take both paths of the loop body,
\* with and without a throw
FewBatches ==
  {<<>>, <<[key |-> "k1", value |-> "v1"]>>, <<[key |-> "k1", value |-> undefined]>>}

MaxAttemptsOptions == (0..MaxMaxAttempts) \cup {Infinity}

\* ------------------------------------------------------------ option defaults
getRevision(value) == value

\* an equality that never holds
equalityNever(a, b) == FALSE

equality(a, b) == a = b

\* --------------------------------------------- Map<Key, Revision>, in insertion order
EmptyMap == <<>>

MapHas(m, k) == \E i \in 1..Len(m) : m[i].key = k

MapIndex(m, k) == CHOOSE i \in 1..Len(m) : m[i].key = k

MapGet(m, k) == m[MapIndex(m, k)].rev

MapSet(m, k, r) ==
  IF MapHas(m, k)
    THEN [m EXCEPT ![MapIndex(m, k)] = [key |-> k, rev |-> r]]
    ELSE Append(m, [key |-> k, rev |-> r])

\* a delete that removes nothing
MapDeleteNothing(m, k) == m

MapDelete(m, k) == SelectSeq(m, LAMBDA e : e.key # k)

MapKeys(m) == [i \in 1..Len(m) |-> m[i].key]

MapKeySet(m) == {m[i].key : i \in 1..Len(m)}

\* ------------------------------------------------------------------- errors
NoError == [kind |-> "none", sub |-> 0, detail |-> ""]

\* the error the source of subscription number sub fails with
SourceError(sub) == [kind |-> "source", sub |-> sub, detail |-> ""]

\* the AbortError raised at a suspension point
AbortError(sub, at) == [kind |-> "abort", sub |-> sub, detail |-> at]

\* the value raised by the onError hook when called for subscription sub
HookError(sub) == [kind |-> "hook", sub |-> sub, detail |-> ""]

\* Error(`Unexpected 'undefined' value at key '${key}' in initial emission`)
InitialEmissionError(sub, k) == [kind |-> "undefinedInInitialEmission", sub |-> sub, detail |-> k]

\* Error(`Unexpected 'undefined' value at key '${key}': previous value was already 'undefined'`)
AlreadyUndefinedError(sub, k) == [kind |-> "alreadyUndefined", sub |-> sub, detail |-> k]

IsProtocolError(e) == e.kind \in {"undefinedInInitialEmission", "alreadyUndefined"}

\* ----------------------------------------------------- processing of one batch
\* the diff against State, for the first batch of a resubscription
RECURSIVE DiffLoop(_, _, _, _, _, _)
DiffLoop(st, nextState, diff, updates, i, sub) ==
  IF i > Len(updates)
    THEN [error |-> NoError,
          state |-> nextState,
          out |-> diff \o [j \in 1..Len(st) |-> [key |-> st[j].key, value |-> undefined]]]
    ELSE LET key == updates[i].key
             value == updates[i].value
         IN IF value = undefined
              THEN [error |-> InitialEmissionError(sub, key), state |-> st, out |-> <<>>]
              ELSE LET revision == getRevision(value)
                       pushed == IF ~MapHas(st, key) \/ ~equality(MapGet(st, key), revision)
                                   THEN Append(diff, [key |-> key, value |-> value])
                                   ELSE diff
                   IN DiffLoop(MapDelete(st, key), MapSet(nextState, key, revision),
                               pushed, updates, i + 1, sub)

\* the direct application to State, for every other batch
RECURSIVE ApplyLoop(_, _, _, _)
ApplyLoop(st, updates, i, sub) ==
  IF i > Len(updates)
    THEN [error |-> NoError, state |-> st, out |-> updates]
    ELSE LET key == updates[i].key
             value == updates[i].value
         IN IF value = undefined
              THEN LET deleted == MapHas(st, key)
                   IN IF ~deleted
                        THEN [error |-> AlreadyUndefinedError(sub, key), state |-> st, out |-> <<>>]
                        ELSE ApplyLoop(MapDelete(st, key), updates, i + 1, sub)
              ELSE ApplyLoop(MapSet(st, key, getRevision(value)), updates, i + 1, sub)

\* the first batch of every subscription taken as a snapshot to diff
IsFirstBatch(inner, outer) == inner = 0

IsResubscriptionSnapshot(inner, outer) == inner = 0 /\ outer # 0

ProcessBatch(st, updates, inner, outer) ==
  IF IsResubscriptionSnapshot(inner, outer)
    THEN DiffLoop(st, EmptyMap, <<>>, updates, 1, outer)
    ELSE ApplyLoop(st, updates, 1, outer)

\* ------------------------------------------------------------------ backoff
Min(a, b) == IF a <= b THEN a ELSE b

\* a backoff without the Math.min(maxDelayMs, ...) cap
computeDelayUncapped(att, r) ==
  LET backoff == (2 ^ att) * baseMs
  IN (backoff * (r[2] + r[1]) + r[2]) \div (2 * r[2])

\* Math.round((backoff * (1 + Math.random())) / 2), Math.random() = r[1] / r[2]
computeDelay(att, r) ==
  LET backoff == Min(maxDelayMs, (2 ^ att) * baseMs)
  IN (backoff * (r[2] + r[1]) + r[2]) \div (2 * r[2])

\* ------------------------------------------------------- the consumer's view
\* the collection a consumer holds after applying one more emitted batch
RECURSIVE ApplyToView(_, _, _)
ApplyToView(v, batch, i) ==
  IF i > Len(batch)
    THEN v
    ELSE ApplyToView([v EXCEPT ![batch[i].key] = batch[i].value], batch, i + 1)

ViewKeys(v) == {k \in Keys : v[k] # undefined}

\* -------------------------------------------------------------------- state
VARIABLES
  pc,           \* position of the generator
  maxAttempts,  \* options.maxAttempts
  sourceBatches, \* the batches the subscribed source may deliver
  state,        \* let state = new Map<Key, Revision>()
  attempt,      \* let attempt: number | undefined
  outerCount,   \* let outerCount
  innerCount,   \* let innerCount
  delayMs,      \* the delay being waited for, undefinedNumber when none
  lastBatch,    \* observation: the last batch received from the source
  recvCount,    \* observation: number of batches received from the source
  lastEmitted,  \* observation: the last batch yielded to the consumer
  emitCount,    \* observation: number of batches yielded to the consumer
  view,         \* observation: the emitted batches applied in order to an empty map
  lastHook,     \* observation: the arguments of the last call of options.onError
  hookCount,    \* observation: number of calls of options.onError
  preInitFailures, \* observation: failures of subscriptions that had delivered no
                \* batch, since the start or since the last received batch
  lastEvent,    \* observation: what the generator was last resumed with
  lastError,    \* observation: the last error raised in the loop body or the wait
  result        \* observation: how the generator ended

vars == <<pc, maxAttempts, sourceBatches, state, attempt, outerCount, innerCount, delayMs,
          lastBatch, recvCount, lastEmitted, emitCount, view, lastHook,
          hookCount, preInitFailures, lastEvent, lastError, result>>

NoResult == [kind |-> "none", error |-> NoError]

Returned == [kind |-> "return", error |-> NoError]

Thrown(e) == [kind |-> "throw", error |-> e]

NoHookCall ==
  [error |-> NoError, attempt |-> undefinedNumber, delayMs |-> undefinedNumber,
   random |-> NoDraw, raised |-> FALSE]

InitLoop ==
  /\ pc = "open"
  /\ state = EmptyMap
  /\ attempt = 0
  /\ outerCount = -1
  /\ innerCount = -1
  /\ delayMs = undefinedNumber
  /\ lastBatch = <<>>
  /\ recvCount = 0
  /\ lastEmitted = <<>>
  /\ emitCount = 0
  /\ view = [k \in Keys |-> undefined]
  /\ lastHook = NoHookCall
  /\ hookCount = 0
  /\ preInitFailures = 0
  /\ lastEvent = "created"
  /\ lastError = NoError
  /\ result = NoResult

\* default options, and a source that may deliver any batch
Init == InitLoop /\ maxAttempts = Infinity /\ sourceBatches = Batches

\* any maxAttempts, and a source that delivers few batches
InitRetry == InitLoop /\ maxAttempts \in MaxAttemptsOptions /\ sourceBatches = FewBatches

\* batches that upsert distinct keys: the snapshots of a collection
Snapshots ==
  {b \in Batches : /\ \A i \in 1..Len(b) : b[i].value # undefined
                   /\ \A i, j \in 1..Len(b) : i # j => b[i].key # b[j].key}

\* the wrapper waits for a batch of subscription number o that has delivered
\* i + 1 batches, after this run: every earlier subscription delivered the
\* snapshot b and then failed, and this one delivered b and then i empty batches
AwaitingBatch(b, o, i) ==
  /\ pc = "await"
  /\ outerCount = o
  /\ innerCount = i
  /\ state = IF o = 0 /\ i = -1 THEN EmptyMap ELSE ApplyLoop(EmptyMap, b, 1, 0).state
  /\ attempt = IF i >= 0 THEN undefinedNumber ELSE 0
  /\ delayMs = undefinedNumber
  /\ lastBatch = IF (o = 0 /\ i = -1) \/ i >= 1 THEN <<>> ELSE b
  /\ recvCount = o + i + 1
  /\ lastEmitted = IF o + i + 1 = 1 THEN b ELSE <<>>
  /\ emitCount = o + i + 1
  /\ view = IF o = 0 /\ i = -1
              THEN [k \in Keys |-> undefined]
              ELSE ApplyToView([k \in Keys |-> undefined], b, 1)
  /\ lastHook = IF o = 0
                  THEN NoHookCall
                  ELSE [error |-> SourceError(o - 1), attempt |-> undefinedNumber,
                        delayMs |-> undefinedNumber, random |-> NoDraw,
                        raised |-> FALSE]
  /\ hookCount = o
  /\ preInitFailures = 0
  /\ lastEvent = IF i = -1 THEN "subscribed" ELSE "next"
  /\ lastError = IF o = 0 THEN NoError ELSE SourceError(o - 1)
  /\ result = NoResult

\* default options; the wrapper waits for a batch, at any place of any
\* subscription, with any State
InitBatch ==
  /\ maxAttempts = Infinity
  /\ sourceBatches = Batches
  /\ \E b \in Snapshots, o \in 0..MaxOuterCount, i \in -1..(MaxInnerCount - 1) :
       /\ (o = 0 /\ i = -1) => b = <<>>
       /\ AwaitingBatch(b, o, i)

\* the wrapper waits for the first batch of subscription number k, after this
\* run: each of the k earlier subscriptions failed before its first batch, and
\* r was the last draw of Math.random()
AwaitingAfterFailures(k, r) ==
  /\ pc = "await"
  /\ outerCount = k
  /\ innerCount = -1
  /\ state = EmptyMap
  /\ attempt = k
  /\ delayMs = undefinedNumber
  /\ lastBatch = <<>>
  /\ recvCount = 0
  /\ lastEmitted = <<>>
  /\ emitCount = 0
  /\ view = [key \in Keys |-> undefined]
  /\ lastHook = IF k = 0
                  THEN NoHookCall
                  ELSE [error |-> SourceError(k - 1), attempt |-> k - 1,
                        delayMs |-> computeDelay(k - 1, r), random |-> r,
                        raised |-> FALSE]
  /\ hookCount = k
  /\ preInitFailures = k
  /\ lastEvent = "subscribed"
  /\ lastError = IF k = 0 THEN NoError ELSE SourceError(k - 1)
  /\ result = NoResult

\* default options; the wrapper waits for a first batch after any number of
\* failures in a row
InitDelay ==
  /\ maxAttempts = Infinity
  /\ sourceBatches = FewBatches
  /\ \E k \in 0..MaxAttempt, r \in RandomDraws :
       /\ k = 0 => r = <<0, 1>>
       /\ AwaitingAfterFailures(k, r)

\* ---------------------------------------------------------- the catch block
\* a catch block without rethrowAbortError
NeverAbortError(e) == FALSE

\* rethrowAbortError(error) rethrows exactly the AbortErrors
IsAbortError(e) == e.kind = "abort"

\* the budget check off by one: attempt > maxAttempts
BudgetExhaustedOffByOne(att) == att > maxAttempts

\* if (attempt >= maxAttempts) throw error
BudgetExhausted(att) == att >= maxAttempts

\* onError called inside a try block that swallows what it raises
HookRaiseSwallowed(hookThrows) == FALSE

\* onError is called outside any try block: what it raises leaves the generator
HookRaisePropagates(hookThrows) == hookThrows

\* attempt = 0 falling through to the attempt += 1 of the backoff path
AttemptAfterImmediateRetryOne == 0 + 1

\* attempt = 0, after a failure of an initialized subscription
AttemptAfterImmediateRetry == 0

\* the catch block, entered with `error` while attempt = att; hookThrows tells
\* whether onError raises, r is the draw of Math.random()
Catch(error, att, hookThrows, r) ==
  /\ lastError' = error
  /\ IF IsAbortError(error)
       THEN /\ pc' = "done"
            /\ result' = Thrown(error)
            /\ attempt' = att
            /\ UNCHANGED <<lastHook, hookCount, delayMs>>
       ELSE IF att = undefinedNumber
         THEN /\ lastHook' = [error |-> error, attempt |-> undefinedNumber,
                               delayMs |-> undefinedNumber, random |-> NoDraw,
                               raised |-> hookThrows]
              /\ hookCount' = hookCount + 1
              /\ UNCHANGED delayMs
              /\ IF HookRaisePropagates(hookThrows)
                   THEN /\ pc' = "done"
                        /\ result' = Thrown(HookError(error.sub))
                        /\ attempt' = att
                   ELSE /\ pc' = "open"
                        /\ attempt' = AttemptAfterImmediateRetry
                        /\ UNCHANGED result
         ELSE IF BudgetExhausted(att)
           THEN /\ pc' = "done"
                /\ result' = Thrown(error)
                /\ attempt' = att
                /\ UNCHANGED <<lastHook, hookCount, delayMs>>
           ELSE LET d == computeDelay(att, r)
                IN /\ lastHook' = [error |-> error, attempt |-> att, delayMs |-> d,
                                   random |-> r, raised |-> hookThrows]
                   /\ hookCount' = hookCount + 1
                   /\ attempt' = att
                   /\ IF HookRaisePropagates(hookThrows)
                        THEN /\ pc' = "done"
                             /\ result' = Thrown(HookError(error.sub))
                             /\ UNCHANGED delayMs
                        ELSE /\ pc' = "delay"
                             /\ delayMs' = d
                             /\ UNCHANGED result

\* ------------------------------------------------------------------ actions
\* a loop that starts every subscription from an empty State
OpenResetsState ==
  /\ pc = "open"
  /\ lastEvent' = "subscribed"
  /\ outerCount < MaxOuterCount
  /\ outerCount' = outerCount + 1
  /\ innerCount' = -1
  /\ state' = EmptyMap
  /\ pc' = "await"
  /\ UNCHANGED <<maxAttempts, sourceBatches, attempt, delayMs, lastBatch, recvCount,
                 lastEmitted, emitCount, view, lastHook, hookCount,
                 lastError, result, preInitFailures>>

\* outerCount += 1; subscribe(signal) returns the source
Open ==
  /\ pc = "open"
  /\ lastEvent' = "subscribed"
  /\ outerCount < MaxOuterCount
  /\ outerCount' = outerCount + 1
  /\ innerCount' = -1
  /\ pc' = "await"
  /\ UNCHANGED <<maxAttempts, sourceBatches, state, attempt, delayMs, lastBatch, recvCount,
                 lastEmitted, emitCount, view, lastHook, hookCount,
                 lastError, result,
                 preInitFailures>>

\* outerCount += 1; subscribe(signal) throws an error that is not an AbortError
OpenFail ==
  /\ pc = "open"
  /\ lastEvent' = "subscribeThrew"
  /\ preInitFailures' = preInitFailures + 1
  /\ outerCount < MaxOuterCount
  /\ outerCount' = outerCount + 1
  /\ innerCount' = -1
  /\ \E hookThrows \in BOOLEAN, r \in RandomDraws :
       Catch(SourceError(outerCount + 1), attempt, hookThrows, r)
  /\ UNCHANGED <<maxAttempts, sourceBatches, state, lastBatch, recvCount, lastEmitted,
                 emitCount, view>>

\* outerCount += 1; subscribe(signal) throws an AbortError
OpenAbort ==
  /\ pc = "open"
  /\ lastEvent' = "subscribeAborted"
  /\ outerCount < MaxOuterCount
  /\ outerCount' = outerCount + 1
  /\ innerCount' = -1
  /\ \E r \in RandomDraws :
       Catch(AbortError(outerCount + 1, "subscribe"), attempt, FALSE, r)
  /\ UNCHANGED <<maxAttempts, sourceBatches, state, lastBatch, recvCount, lastEmitted,
                 emitCount, view,
                 preInitFailures>>

\* a loop body that leaves attempt alone when a batch is received
AttemptKeptAfterBatch == attempt

\* attempt = undefined, when a batch is received
AttemptAfterBatch == undefinedNumber

\* a loop body that yields a batch only when it is not empty
ReceiveBatchSkipsEmpty ==
  /\ pc = "await"
  /\ lastEvent' = "batch"
  /\ preInitFailures' = 0
  /\ innerCount < MaxInnerCount
  /\ \E updates \in sourceBatches :
       LET inner == innerCount + 1
           res == ProcessBatch(state, updates, inner, outerCount)
       IN /\ innerCount' = inner
          /\ lastBatch' = updates
          /\ recvCount' = recvCount + 1
          /\ state' = res.state
          /\ IF res.error = NoError
               THEN /\ attempt' = AttemptAfterBatch
                    /\ IF res.out = <<>>
                         THEN /\ pc' = "await"
                              /\ UNCHANGED <<lastEmitted, emitCount, view>>
                         ELSE /\ pc' = "yield"
                              /\ lastEmitted' = res.out
                              /\ emitCount' = emitCount + 1
                              /\ view' = ApplyToView(view, res.out, 1)
                    /\ UNCHANGED <<delayMs, lastHook, hookCount, lastError, result>>
               ELSE /\ \E hookThrows \in BOOLEAN, r \in RandomDraws :
                         Catch(res.error, AttemptAfterBatch, hookThrows, r)
                    /\ UNCHANGED <<lastEmitted, emitCount, view>>
  /\ UNCHANGED <<maxAttempts, sourceBatches, outerCount>>

\* the source delivers `updates`: the body of the for-await loop up to its
\* yield, or up to the end of the catch block when the body throws
ReceiveBatch ==
  /\ pc = "await"
  /\ lastEvent' = "batch"
  /\ preInitFailures' = 0
  /\ innerCount < MaxInnerCount
  /\ \E updates \in sourceBatches :
       LET inner == innerCount + 1
           res == ProcessBatch(state, updates, inner, outerCount)
       IN /\ innerCount' = inner
          /\ lastBatch' = updates
          /\ recvCount' = recvCount + 1
          /\ state' = res.state
          /\ IF res.error = NoError
               THEN /\ attempt' = AttemptAfterBatch
                    /\ pc' = "yield"
                    /\ lastEmitted' = res.out
                    /\ emitCount' = emitCount + 1
                    /\ view' = ApplyToView(view, res.out, 1)
                    /\ UNCHANGED <<delayMs, lastHook, hookCount, lastError, result>>
               ELSE /\ \E hookThrows \in BOOLEAN, r \in RandomDraws :
                         Catch(res.error, AttemptAfterBatch, hookThrows, r)
                    /\ UNCHANGED <<lastEmitted, emitCount, view>>
  /\ UNCHANGED <<maxAttempts, sourceBatches, outerCount>>

\* the consumer asks for the next batch: the generator resumes after its yield
ConsumerNext ==
  /\ pc = "yield"
  /\ lastEvent' = "next"
  /\ pc' = "await"
  /\ UNCHANGED <<maxAttempts, sourceBatches, state, attempt, outerCount, innerCount, delayMs,
                 lastBatch, recvCount, lastEmitted, emitCount, view, lastHook,
                 hookCount, lastError, result,
                 preInitFailures>>

\* a catch block that first yields an empty batch to the consumer
SourceFailEmitsReset ==
  /\ pc = "await"
  /\ lastEvent' = "sourceThrew"
  /\ preInitFailures' = IF innerCount = -1 THEN preInitFailures + 1 ELSE preInitFailures
  /\ \E hookThrows \in BOOLEAN, r \in RandomDraws :
       Catch(SourceError(outerCount), attempt, hookThrows, r)
  /\ lastEmitted' = <<>>
  /\ emitCount' = emitCount + 1
  /\ UNCHANGED <<maxAttempts, sourceBatches, state, outerCount, innerCount, lastBatch,
                 recvCount, view>>

\* the source's next() rejects with an error that is not an AbortError
SourceFail ==
  /\ pc = "await"
  /\ lastEvent' = "sourceThrew"
  /\ preInitFailures' = IF innerCount = -1 THEN preInitFailures + 1 ELSE preInitFailures
  /\ \E hookThrows \in BOOLEAN, r \in RandomDraws :
       Catch(SourceError(outerCount), attempt, hookThrows, r)
  /\ UNCHANGED <<maxAttempts, sourceBatches, state, outerCount, innerCount, lastBatch,
                 recvCount, lastEmitted, emitCount, view>>

\* the source's next() rejects with an AbortError
SourceAbort ==
  /\ pc = "await"
  /\ lastEvent' = "sourceAborted"
  /\ \E r \in RandomDraws :
       Catch(AbortError(outerCount, "next"), attempt, FALSE, r)
  /\ UNCHANGED <<maxAttempts, sourceBatches, state, outerCount, innerCount, lastBatch,
                 recvCount, lastEmitted, emitCount, view,
                 preInitFailures>>

\* a loop that resubscribes when the source ends
SourceCompleteResubscribes ==
  /\ pc = "await"
  /\ lastEvent' = "sourceEnded"
  /\ pc' = "open"
  /\ UNCHANGED <<maxAttempts, sourceBatches, state, attempt, outerCount,
                 innerCount, delayMs, lastBatch, recvCount, lastEmitted,
                 emitCount, view, lastHook, hookCount, lastError, result,
                 preInitFailures>>

\* the source ends: the for-await loop is left and the generator returns
SourceComplete ==
  /\ pc = "await"
  /\ lastEvent' = "sourceEnded"
  /\ pc' = "done"
  /\ result' = Returned
  /\ UNCHANGED <<maxAttempts, sourceBatches, state, attempt, outerCount, innerCount, delayMs,
                 lastBatch, recvCount, lastEmitted, emitCount, view, lastHook,
                 hookCount, lastError,
                 preInitFailures>>

\* a wait after which attempt is not incremented
DelayElapsedKeepsAttempt ==
  /\ pc = "delay"
  /\ lastEvent' = "delayElapsed"
  /\ delayMs' = undefinedNumber
  /\ pc' = "open"
  /\ UNCHANGED <<maxAttempts, sourceBatches, state, attempt, outerCount, innerCount,
                 lastBatch, recvCount, lastEmitted, emitCount, view, lastHook,
                 hookCount, lastError, result, preInitFailures>>

\* delay(signal, delayMs) resolves; attempt += 1
DelayElapsed ==
  /\ pc = "delay"
  /\ lastEvent' = "delayElapsed"
  /\ attempt' = attempt + 1
  /\ delayMs' = undefinedNumber
  /\ pc' = "open"
  /\ UNCHANGED <<maxAttempts, sourceBatches, state, outerCount, innerCount, lastBatch,
                 recvCount, lastEmitted, emitCount, view, lastHook,
                 hookCount, lastError, result,
                 preInitFailures>>

\* delay(signal, delayMs) rejects with an AbortError, inside the catch block
DelayAbort ==
  /\ pc = "delay"
  /\ lastEvent' = "delayAborted"
  /\ pc' = "done"
  /\ lastError' = AbortError(outerCount, "delay")
  /\ result' = Thrown(AbortError(outerCount, "delay"))
  /\ delayMs' = undefinedNumber
  /\ UNCHANGED <<maxAttempts, sourceBatches, state, attempt, outerCount, innerCount,
                 lastBatch, recvCount, lastEmitted, emitCount, view, lastHook,
                 hookCount,
                 preInitFailures>>

Next ==
  \/ Open
  \/ OpenFail
  \/ OpenAbort
  \/ ReceiveBatch
  \/ ConsumerNext
  \/ SourceFail
  \/ SourceAbort
  \/ SourceComplete
  \/ DelayElapsed
  \/ DelayAbort

Spec == Init /\ [][Next]_vars

SpecRetry == InitRetry /\ [][Next]_vars

\* the processing of one batch, from every place a batch can arrive at
SpecDelay == InitDelay /\ [][Next]_vars

SpecBatch == InitBatch /\ [][ReceiveBatch]_vars

TypeOK ==
  /\ pc \in {"open", "await", "yield", "delay", "done"}
  /\ attempt \in {undefinedNumber} \cup Nat
  /\ outerCount \in -1..(IF MaxOuterCount < MaxAttempt THEN MaxAttempt ELSE MaxOuterCount)
  /\ innerCount \in -1..MaxInnerCount

\* ------------------------------------------------------------------ claims
Suspended == pc \in {"await", "yield", "delay"}

Terminated == pc = "done"

HasUndefinedValue(batch) == \E i \in 1..Len(batch) : batch[i].value = undefined

EmptyView == [k \in Keys |-> undefined]

\* C1: whenever the wrapper is suspended or has terminated, the keys of State
\* are exactly the keys the consumer holds: those with an emitted upsert that
\* no later emitted delete follows.
StateKeysAreEmittedKeys ==
  (Suspended \/ Terminated) => MapKeySet(state) = ViewKeys(view)

\* C2: right after the diff batch of a resubscription's first batch is
\* emitted, the emitted batches applied in order to an empty map give exactly
\* the snapshot's keys with the snapshot's values, and the diff batch holds no
\* upsert of a key whose value in the snapshot equals the one State had.
ReconciliationGivesSnapshot ==
  /\ [](pc = "yield" /\ IsResubscriptionSnapshot(innerCount, outerCount)
          => view = ApplyToView(EmptyView, lastBatch, 1))
  /\ [][(pc = "await" /\ pc' = "yield"
           /\ IsResubscriptionSnapshot(innerCount', outerCount'))
          => \A i \in 1..Len(lastEmitted') :
               LET u == lastEmitted'[i]
               IN (u.value # undefined /\ MapHas(state, u.key)
                     /\ ApplyToView(EmptyView, lastBatch', 1)[u.key] = u.value)
                    => MapGet(state, u.key) # getRevision(u.value)]_vars

\* C3: once the direct application of a batch has found an absent value for a
\* key that is not in State, the wrapper has ended with that error, without
\* calling onError for it (and so never reopens the source).
DirectViolationIsTerminal ==
  lastError.kind = "alreadyUndefined"
    => /\ pc = "done"
       /\ result = Thrown(lastError)
       /\ lastHook.error # lastError

\* C4: once the first batch of a resubscription holds an absent value, the
\* wrapper has ended with a protocol-violation error: no diff batch was emitted
\* for it, onError was not called for the error, the source is not reopened.
SnapshotViolationIsTerminal ==
  (outerCount # 0 /\ innerCount = 0 /\ HasUndefinedValue(lastBatch))
    => /\ pc = "done"
       /\ result.kind = "throw"
       /\ IsProtocolError(result.error)
       /\ lastHook.error # result.error

\* C5: once the first batch of the very first subscription holds an absent
\* value, whatever its key, the wrapper has ended with a protocol-violation
\* error, nothing was emitted and the source is not reopened.
FirstBatchViolationIsTerminal ==
  (outerCount = 0 /\ innerCount = 0 /\ HasUndefinedValue(lastBatch))
    => /\ pc = "done"
       /\ result.kind = "throw"
       /\ IsProtocolError(result.error)
       /\ emitCount = 0

\* C6: as long as no batch was ever received, the source has been opened at
\* most maxAttempts + 1 times, the i-th call of onError (i = 1, 2, ...) carried
\* attempt i - 1 and the error of subscription i - 1, and there were at most
\* maxAttempts calls; when the wrapper then ends with a source error, the source
\* was opened exactly maxAttempts + 1 times, onError was called exactly
\* maxAttempts times, and the error is the one of the last subscription, for
\* which onError was not called.
AttemptBudget ==
  recvCount = 0
    => /\ outerCount <= maxAttempts
       /\ hookCount <= maxAttempts
       /\ hookCount > 0
            => /\ lastHook.attempt = hookCount - 1
               /\ lastHook.error = SourceError(hookCount - 1)
       /\ (pc = "done" /\ result.kind = "throw" /\ result.error.kind = "source")
            => /\ outerCount = maxAttempts
               /\ hookCount = maxAttempts
               /\ result.error = SourceError(maxAttempts)
               /\ lastHook.error # result.error

AttemptBudgetWitness ==
  /\ pc = "done"
  /\ recvCount = 0
  /\ maxAttempts = 2
  /\ outerCount = 2
  /\ hookCount = 2
  /\ lastHook.attempt = 1
  /\ result = Thrown(SourceError(2))

\* C7: while a subscription that has delivered a batch is open, attempt is
\* undefined; when its source then fails with an error that is not an
\* AbortError, onError is called once with (error, undefined, undefined) and,
\* unless the hook raises, attempt becomes 0 and the wrapper stands before
\* subscribe() with no delay pending, whatever maxAttempts is.
FailureAfterInitialization ==
  /\ []((pc \in {"await", "yield"} /\ innerCount >= 0) => attempt = undefinedNumber)
  /\ [][(pc = "await" /\ innerCount >= 0 /\ lastEvent' = "sourceThrew")
          => /\ hookCount' = hookCount + 1
             /\ lastHook'.error = SourceError(outerCount)
             /\ lastHook'.attempt = undefinedNumber
             /\ lastHook'.delayMs = undefinedNumber
             /\ ~lastHook'.raised
                  => /\ pc' = "open"
                     /\ attempt' = 0
                     /\ delayMs' = undefinedNumber
                     /\ outerCount' = outerCount]_vars

FailureAfterInitializationWitness ==
  /\ pc = "open"
  /\ lastEvent = "sourceThrew"
  /\ maxAttempts = 0
  /\ recvCount > 0
  /\ lastHook.attempt = undefinedNumber
  /\ lastHook.error = SourceError(outerCount)
  /\ attempt = 0

\* C8: after subscribe(), the source's next() or the backoff wait raised an
\* AbortError, the wrapper has ended with exactly that error, and the step that
\* raised it called onError not at all and left the source unopened; an abort of
\* the wait wins over the source error the wait was for.
CancellationPropagates ==
  /\ [](lastEvent \in {"subscribeAborted", "sourceAborted", "delayAborted"}
          => /\ pc = "done"
             /\ lastError.kind = "abort"
             /\ result = Thrown(lastError))
  /\ [][lastEvent' \in {"sourceAborted", "delayAborted"}
          => hookCount' = hookCount /\ outerCount' = outerCount]_vars
  /\ [][lastEvent' = "subscribeAborted" => hookCount' = hookCount]_vars

CancellationPropagatesWitness ==
  /\ pc = "done"
  /\ lastEvent = "delayAborted"
  /\ lastHook.error = SourceError(outerCount)
  /\ result = Thrown(AbortError(outerCount, "delay"))

\* C9: after a call of onError that raised, with numeric or with undefined
\* arguments, the wrapper has ended with the value the hook raised; no delay
\* was started and the source is not reopened.
HookRethrowEnds ==
  lastHook.raised
    => /\ pc = "done"
       /\ result = Thrown(HookError(lastHook.error.sub))
       /\ delayMs = undefinedNumber
       /\ outerCount = lastHook.error.sub

HookRethrowEndsWitness ==
  /\ lastHook.raised
  /\ lastHook.attempt = undefinedNumber
  /\ pc = "done"
  /\ result.error.kind = "hook"

\* C10: after the source of any subscription ended without an error, the
\* wrapper has returned; that step called onError not at all, reopened nothing
\* and started no delay.
CleanCompletionEnds ==
  /\ [](lastEvent = "sourceEnded"
          => pc = "done" /\ result = Returned /\ delayMs = undefinedNumber)
  /\ [][lastEvent' = "sourceEnded"
          => /\ hookCount' = hookCount
             /\ outerCount' = outerCount
             /\ emitCount' = emitCount]_vars

CleanCompletionEndsWitness ==
  /\ lastEvent = "sourceEnded"
  /\ pc = "done"
  /\ result = Returned
  /\ outerCount > 0
  /\ recvCount > 0

\* ------------------------------------------------- claims on one batch
\* the step receives the first batch of a subscription that is not the first
DiffStep == pc = "await" /\ lastEvent' = "batch" /\ innerCount' = 0 /\ outerCount # 0

\* the step receives any other batch
DirectStep == pc = "await" /\ lastEvent' = "batch" /\ ~(innerCount' = 0 /\ outerCount # 0)

OccursIn(batch, k) == \E i \in 1..Len(batch) : batch[i].key = k

Occurrences(batch, k) == Cardinality({i \in 1..Len(batch) : batch[i].key = k})

KeysOf(batch) == {batch[i].key : i \in 1..Len(batch)}

Upserts(batch) == SelectSeq(batch, LAMBDA u : u.value # undefined)

\* State as a function of the key, undefined where the key is absent
MapAsFunction(m) == [k \in Keys |-> IF MapHas(m, k) THEN MapGet(m, k) ELSE undefined]

RECURSIVE IsSubsequence(_, _)
IsSubsequence(a, b) ==
  IF a = <<>> THEN TRUE
  ELSE IF b = <<>> THEN FALSE
  ELSE IF Head(a) = Head(b) THEN IsSubsequence(Tail(a), Tail(b))
  ELSE IsSubsequence(a, Tail(b))

\* C11, as stated: for a reconciliation snapshot with present values, the diff
\* batch holds an upsert {key, value} only if key is absent from the old State
\* or the stored revision differs from getRevision(value) (identity revisions,
\* deep equality), and a delete of key only if key is in the old State and
\* does not occur in the snapshot.
DiffIsMinimal ==
  [][(DiffStep /\ ~HasUndefinedValue(lastBatch'))
       => \A i \in 1..Len(lastEmitted') :
            LET u == lastEmitted'[i]
            IN IF u.value # undefined
                 THEN ~MapHas(state, u.key) \/ MapGet(state, u.key) # u.value
                 ELSE MapHas(state, u.key) /\ ~OccursIn(lastBatch', u.key)]_vars

\* C11, amended: an upsert {key, value} is in the diff batch only if key is
\* absent from the old State, or the stored revision differs from
\* getRevision(value), or key occurs more than once in the snapshot; a delete
\* of key only if key is in the old State and does not occur in the snapshot.
DiffIsMinimalUpToRepeatedKeys ==
  [][(DiffStep /\ ~HasUndefinedValue(lastBatch'))
       => \A i \in 1..Len(lastEmitted') :
            LET u == lastEmitted'[i]
            IN IF u.value # undefined
                 THEN \/ ~MapHas(state, u.key)
                      \/ MapGet(state, u.key) # u.value
                      \/ Occurrences(lastBatch', u.key) > 1
                 ELSE MapHas(state, u.key) /\ ~OccursIn(lastBatch', u.key)]_vars

\* the snapshot names k1 twice with the value State had for it, and one of the
\* two occurrences was emitted
DiffIsMinimalUpToRepeatedKeysWitness ==
  /\ pc = "yield"
  /\ outerCount # 0
  /\ innerCount = 0
  /\ lastBatch = <<[key |-> "k1", value |-> "v1"], [key |-> "k1", value |-> "v1"]>>
  /\ lastEmitted = <<[key |-> "k1", value |-> "v1"]>>

\* C12: for a reconciliation snapshot with present values, the diff batch holds
\* exactly one delete for each key of the old State that does not occur in the
\* snapshot and no other delete, every delete comes after every upsert, the
\* upserts are in snapshot order, and the keys of the new State are exactly the
\* keys that occur in the snapshot.
DiffDeletesAndOrder ==
  [][(DiffStep /\ ~HasUndefinedValue(lastBatch'))
       => /\ \A k \in Keys :
               Cardinality({i \in 1..Len(lastEmitted') :
                              lastEmitted'[i] = [key |-> k, value |-> undefined]})
                 = IF MapHas(state, k) /\ ~OccursIn(lastBatch', k) THEN 1 ELSE 0
          /\ \A i, j \in 1..Len(lastEmitted') :
               (i < j /\ lastEmitted'[i].value = undefined)
                 => lastEmitted'[j].value = undefined
          /\ IsSubsequence(Upserts(lastEmitted'), lastBatch')
          /\ MapKeySet(state') = KeysOf(lastBatch')]_vars

\* State had k1 and k2, the snapshot changes k1 and leaves out k2
DiffDeletesAndOrderWitness ==
  /\ pc = "yield"
  /\ outerCount # 0
  /\ innerCount = 0
  /\ lastBatch = <<[key |-> "k1", value |-> "v2"]>>
  /\ lastEmitted = <<[key |-> "k1", value |-> "v2"], [key |-> "k2", value |-> undefined]>>
  /\ MapKeySet(state) = {"k1"}

\* C13: when a reconciliation snapshot lists exactly the keys of State, each
\* once, each with the stored revision, the step emits one batch, the batch is
\* empty, and State maps the same keys to the same revisions as before.
DiffIsIdempotent ==
  [][(/\ DiffStep
      /\ Len(lastBatch') = Len(state)
      /\ KeysOf(lastBatch') = MapKeySet(state)
      /\ \A i \in 1..Len(lastBatch') :
           /\ lastBatch'[i].value # undefined
           /\ MapGet(state, lastBatch'[i].key) = lastBatch'[i].value)
       => /\ pc' = "yield"
          /\ emitCount' = emitCount + 1
          /\ lastEmitted' = <<>>
          /\ MapAsFunction(state') = MapAsFunction(state)]_vars

\* a snapshot of two keys after which an empty batch was emitted
DiffIsIdempotentWitness ==
  /\ pc = "yield"
  /\ outerCount # 0
  /\ innerCount = 0
  /\ Len(lastBatch) = 2
  /\ KeysOf(lastBatch) = Keys
  /\ lastEmitted = <<>>
  /\ emitCount = recvCount

\* C19: the first batch of a subscription that is not the first is diffed
\* against State; every other batch is applied to State update by update
\* (a present value stored, an absent one removing the key) and, unless that
\* throws, is emitted as received.
BatchRouting ==
  [][/\ DiffStep
          => LET r == DiffLoop(state, EmptyMap, <<>>, lastBatch', 1, outerCount)
             IN /\ state' = r.state
                /\ r.error = NoError => (pc' = "yield" /\ lastEmitted' = r.out)
     /\ DirectStep
          => LET r == ApplyLoop(state, lastBatch', 1, outerCount)
             IN /\ state' = r.state
                /\ r.error = NoError
                     => /\ pc' = "yield"
                        /\ emitCount' = emitCount + 1
                        /\ lastEmitted' = lastBatch'
                        /\ MapAsFunction(state')
                             = ApplyToView(MapAsFunction(state), lastBatch', 1)]_vars

\* the second batch of a resubscription, holding a delete, emitted as received
BatchRoutingWitness ==
  /\ pc = "yield"
  /\ outerCount >= 1
  /\ innerCount = 1
  /\ HasUndefinedValue(lastBatch)
  /\ Len(lastBatch) = 2
  /\ lastEmitted = lastBatch

\* ------------------------------------------------- claims on the backoff
\* C14: the delay handed to onError and waited after a failure with
\* attempt = k lies between min(maxDelayMs, baseMs * 2^k) / 2 and
\* min(maxDelayMs, baseMs * 2^k), both included, for every draw of the jitter;
\* it is never above maxDelayMs.
BackoffRange ==
  /\ lastHook.attempt # undefinedNumber
       => LET cap == IF baseMs * (2 ^ lastHook.attempt) < maxDelayMs
                       THEN baseMs * (2 ^ lastHook.attempt)
                       ELSE maxDelayMs
          IN /\ 2 * lastHook.delayMs >= cap
             /\ lastHook.delayMs <= cap
             /\ lastHook.delayMs <= maxDelayMs
  /\ pc = "delay"
       => LET cap == IF baseMs * (2 ^ attempt) < maxDelayMs
                       THEN baseMs * (2 ^ attempt)
                       ELSE maxDelayMs
          IN /\ 2 * delayMs >= cap
             /\ delayMs <= cap
             /\ delayMs <= maxDelayMs

\* the fifth failure in a row, with a draw next to 1: the capped backoff
BackoffRangeWitness ==
  /\ pc = "delay"
  /\ attempt = 4
  /\ lastHook.attempt = 4
  /\ lastHook.random = <<999, 1000>>
  /\ delayMs = 14993

\* the step is a failure before any batch of the current subscription
PreInitFailureStep ==
  \/ pc = "open" /\ lastEvent' = "subscribeThrew"
  \/ pc = "await" /\ innerCount = -1 /\ lastEvent' = "sourceThrew"

\* C15: when onError is called for a failure before any batch of the current
\* subscription, its attempt is the number of such failures in a row since the
\* start or since the last received batch, its delayMs is the delay computed
\* for that attempt, and that delay is the one then waited; with the jitter
\* draw at 1/2 and baseMs = 1000, attempts 0 and 1 carry 750 and 1500.
HookArguments ==
  [][(PreInitFailureStep /\ hookCount' = hookCount + 1)
       => /\ lastHook'.attempt = preInitFailures
          /\ lastHook'.delayMs = computeDelay(preInitFailures, lastHook'.random)
          /\ pc' = "delay" => delayMs' = lastHook'.delayMs
          /\ (lastHook'.random = <<1, 2>> /\ preInitFailures = 0)
               => lastHook'.delayMs = 750
          /\ (lastHook'.random = <<1, 2>> /\ preInitFailures = 1)
               => lastHook'.delayMs = 1500]_vars

\* a batch, then a failure, then two failures before any batch: the second
\* of them is reported with attempt 1 and waits 1500 ms
HookArgumentsWitness ==
  /\ pc = "delay"
  /\ recvCount = 1
  /\ outerCount = 2
  /\ preInitFailures = 2
  /\ lastHook.attempt = 1
  /\ lastHook.random = <<1, 2>>
  /\ delayMs = 1500

NoSpeculativeMutation ==
  [][state' # state => (lastEvent' = "batch" /\ pc' = "yield")]_vars

\* C18: a source failure, the onError call, the backoff wait, the increment of
\* attempt and the opening of the source leave State unchanged: State changes
\* only in a step that receives a batch.
StatePersistsAcrossAttempts ==
  [][/\ lastEvent' \in {"subscribed", "subscribeThrew", "subscribeAborted", "sourceThrew",
                        "sourceAborted", "sourceEnded", "delayElapsed", "delayAborted",
                        "next"}
          => state' = state
     /\ state' # state => (pc = "await" /\ recvCount' = recvCount + 1)]_vars

\* State still holds k1 after a failure, a failure with a backoff wait and the
\* increment of attempt, and the opening of the third subscription
StatePersistsAcrossAttemptsWitness ==
  /\ pc = "await"
  /\ lastEvent = "subscribed"
  /\ outerCount = 2
  /\ attempt = 1
  /\ hookCount = 2
  /\ MapHas(state, "k1")

\* C20: a received batch that is no protocol violation is emitted as exactly
\* one batch in the step that receives it, and the next source batch is asked
\* for only after the consumer took it; a violating batch emits nothing; no
\* step other than the receipt of a batch emits anything.
OneOutputPerInput ==
  [][/\ lastEvent' = "batch"
          => /\ pc = "await"
             /\ recvCount' = recvCount + 1
             /\ IF ProcessBatch(state, lastBatch', innerCount', outerCount).error = NoError
                  THEN /\ pc' = "yield"
                       /\ emitCount' = emitCount + 1
                       /\ lastEmitted'
                            = ProcessBatch(state, lastBatch', innerCount', outerCount).out
                  ELSE /\ pc' # "yield"
                       /\ emitCount' = emitCount
     /\ lastEvent' # "batch"
          => /\ emitCount' = emitCount
             /\ lastEmitted' = lastEmitted
             /\ view' = view
             /\ recvCount' = recvCount
     /\ pc = "yield" => (lastEvent' = "next" /\ pc' = "await")]_vars

\* three batches received, the second one a protocol violation: two emitted
OneOutputPerInputWitness ==
  /\ pc = "yield"
  /\ outerCount = 1
  /\ recvCount = 3
  /\ emitCount = 2
  /\ lastEmitted # <<>>

====
